---- MODULE Spec2Model ----
(***************************************************************************)
(* Model of src/bot.py: a Telegram bot whose single message handler routes *)
(* a text to one of seven branches (greeting, help, search, solve, joke,   *)
(* chat, unknown), possibly awaits one external call, and answers the      *)
(* chat.  Every inbound update is handled by its own asyncio task          *)
(* (Dispatcher.start_polling creates one task per update), the awaits of   *)
(* handle_message are the points where tasks interleave.                   *)
(*                                                                         *)
(* Texts are sequences of one-character strings, so that strip(), lower(), *)
(* startswith() and slicing are computed as Python computes them.  Reply   *)
(* bodies are sequences of string tokens.                                  *)
(***************************************************************************)
EXTENDS Integers, Sequences, FiniteSets, TLC

VARIABLES update, pc, cmd, resp, result, replies, calls, exc

vars == <<update, pc, cmd, resp, result, replies, calls, exc>>

\* ------------------------------------------------------------- bounds
MaxMsgs == 2
MaxChats == 2

Tasks == 1..MaxMsgs
Chats == 1..MaxChats

\* ------------------------------------------------------------- strings
Whitespace == {" ", "\n", "\t"}

UpperCase == <<"A", "C", "E", "H", "I", "J", "K", "L", "O", "P", "R", "S", "T", "V">>
LowerCase == <<"a", "c", "e", "h", "i", "j", "k", "l", "o", "p", "r", "s", "t", "v">>

\* str.lower() on one character
LowerChar(c) ==
    IF \E i \in 1..Len(UpperCase) : UpperCase[i] = c
    THEN LowerCase[CHOOSE i \in 1..Len(UpperCase) : UpperCase[i] = c]
    ELSE c

\* the comparison made on the text as typed
NoLower(s) == s

\* str.lower()
Lower(s) == [i \in 1..Len(s) |-> LowerChar(s[i])]

RECURSIVE LStrip(_)
LStrip(s) ==
    IF s # <<>> /\ Head(s) \in Whitespace THEN LStrip(Tail(s)) ELSE s

RECURSIVE RStrip(_)
RStrip(s) ==
    IF s # <<>> /\ s[Len(s)] \in Whitespace
    THEN RStrip(SubSeq(s, 1, Len(s) - 1))
    ELSE s

\* str.strip()
Strip(s) == RStrip(LStrip(s))

\* str.startswith(p)
StartsWith(s, p) == Len(s) >= Len(p) /\ SubSeq(s, 1, Len(p)) = p

\* s[n:]
SliceFrom(s, n) == SubSeq(s, n + 1, Len(s))

\* ------------------------------------------------------------- literals
StartText == <<"/", "s", "t", "a", "r", "t">>
HiText == <<"h", "i">>
HelloText == <<"h", "e", "l", "l", "o">>
HelpText == <<"/", "h", "e", "l", "p">>
SearchPrefix == <<"s", "e", "a", "r", "c", "h", ":">>
SolvePrefix == <<"s", "o", "l", "v", "e", ":">>
JokeText == <<"j", "o", "k", "e">>
ChatPrefix == <<"c", "h", "a", "t", ":">>

SearchPrefixLen == 7
SolvePrefixLen == 6
ChatPrefixLen == 5
HttpOk == 200

WelcomeMsg == <<"Hi! I'm a bot powered by Vertex AI (Gemini).">>
HelpMsg == <<"Available commands:">>
SearchingMsg == <<"Searching...">>
ThinkingMsg == <<"Thinking...">>
InvalidExprMsg == <<"Invalid mathematical expression.">>
PromptRequiredMsg == <<"Please enter a message after 'chat:'.">>
UnknownMsg == <<"Unknown command. Type /help to see available options.">>
JokeFailedMsg == <<"Failed to fetch a joke.">>
NoResultsMsg == <<"No results found.">>
NoResponseMsg == <<"No response received.">>

\* ------------------------------------------------------------- Python values
\* the outcome of a call: a returned value or a raised exception
Return(v) == [exc |-> "none", value |-> v]
Raise(e) == [exc |-> e, value |-> <<>>]

\* a JSON object's field: present with a value, or missing
Present(v) == [present |-> TRUE, v |-> v]
Missing == [present |-> FALSE, v |-> ""]

\* dict.get(key): the value, or None
DictGet(field) == IF field.present THEN [none |-> FALSE, s |-> field.v]
                  ELSE [none |-> TRUE, s |-> ""]

\* an f-string's rendering of a value
Format(v) == IF v.none THEN "None" ELSE v.s

\* "sep".join(parts), parts a sequence of token sequences
RECURSIVE Join(_, _)
Join(sep, parts) ==
    IF parts = <<>> THEN <<>>
    ELSE IF Len(parts) = 1 THEN parts[1]
    ELSE parts[1] \o sep \o Join(sep, Tail(parts))

\* ------------------------------------------------------------- routing
Cmd(variant, arg) == [variant |-> variant, arg |-> arg]

\* handle_message, lines 78-126: the chain of tests on the stripped text, in
\* the order of the code; the first test that holds selects the branch.
Route(raw) ==
    LET text == Strip(raw)
        low == Lower(text)
    IN  IF low \in {StartText, HiText, HelloText} THEN Cmd("Greeting", <<>>)
        ELSE IF low = HelpText THEN Cmd("Help", <<>>)
        ELSE IF StartsWith(low, SearchPrefix)
             THEN Cmd("Search", Strip(SliceFrom(text, SearchPrefixLen)))
        ELSE IF StartsWith(low, SolvePrefix)
             THEN Cmd("Solve", Strip(SliceFrom(text, SolvePrefixLen)))
        ELSE IF low = JokeText THEN Cmd("Joke", <<>>)
        ELSE IF StartsWith(low, ChatPrefix)
             THEN Cmd("Chat", Strip(SliceFrom(text, ChatPrefixLen)))
        ELSE Cmd("Unknown", text)

\* ------------------------------------------------------------- solve
\* sympify(expression).evalf(), line 105.  sympify turns a text it cannot
\* parse (empty, a dangling operator, a stray colon) into SympifyError; a
\* text that parses to something that is no sympy expression (a list) makes
\* .evalf() raise AttributeError; anything else evaluates.
Sympify(expression) ==
    IF expression = <<>> THEN Raise("SympifyError")
    ELSE IF expression[Len(expression)] \in {"+", ":"} THEN Raise("SympifyError")
    ELSE IF Head(expression) = "[" THEN Raise("AttributeError")
    ELSE IF expression = <<"2", "+", "2">> THEN Return("4.00000000000000")
    ELSE Return("expr")

\* lines 104-108: the reply the Solve branch sends, or the exception that
\* leaves the try statement (only SympifyError is caught).
SolveReply(expression) ==
    LET r == Sympify(expression)
    IN  IF r.exc = "none" THEN Return(<<"Result: ", r.value>>)
        ELSE IF r.exc = "SympifyError" THEN Return(InvalidExprMsg)
        ELSE Raise(r.exc)

\* ------------------------------------------------------------- search
FullItem(n) == [title |-> Present("T" \o n), snippet |-> Present("S" \o n),
                link |-> Present("L" \o n)]
ItemNoSnippet == [title |-> Present("T"), snippet |-> Missing, link |-> Present("L")]

\* what session.get / resp.json can produce for the search request
HttpResponse(kind, status, decodable, hasItems, items) ==
    [kind |-> kind, status |-> status, decodable |-> decodable,
     hasItems |-> hasItems, items |-> items]

SearchResponses ==
    {HttpResponse("exception", 0, FALSE, FALSE, <<>>),
     HttpResponse("response", 403, TRUE, FALSE, <<>>),
     HttpResponse("response", HttpOk, FALSE, FALSE, <<>>),
     HttpResponse("response", HttpOk, TRUE, FALSE, <<>>),
     HttpResponse("response", HttpOk, TRUE, TRUE, <<>>),
     HttpResponse("response", HttpOk, TRUE, TRUE, <<FullItem("1")>>),
     HttpResponse("response", HttpOk, TRUE, TRUE, <<FullItem("1"), FullItem("2")>>),
     HttpResponse("response", HttpOk, TRUE, TRUE, <<ItemNoSnippet>>)}

\* item['title'], item['snippet'], item['link'] all present
ItemComplete(item) == item.title.present /\ item.snippet.present /\ item.link.present

\* line 62: one formatted block
ItemBlock(item) == <<item.title.v, "\n", item.snippet.v, "\n", item.link.v>>

\* google_search, lines 46-63
google_search(r) ==
    IF r.kind = "exception" THEN Raise("ClientError")
    ELSE IF r.status # HttpOk
         THEN Return(<<"Search error: HTTP ", ToString(r.status)>>)
    ELSE IF ~r.decodable THEN Raise("ContentTypeError")
    ELSE LET items == IF r.hasItems THEN r.items ELSE <<>>
         IN  IF items = <<>> THEN Return(NoResultsMsg)
             ELSE IF \E i \in 1..Len(items) : ~ItemComplete(items[i])
                  THEN Raise("KeyError")
             ELSE Return(Join(<<"\n\n">>, [i \in 1..Len(items) |-> ItemBlock(items[i])]))

\* ------------------------------------------------------------- joke
JokeResponse(kind, status, decodable, setup, punchline) ==
    [kind |-> kind, status |-> status, decodable |-> decodable,
     setup |-> setup, punchline |-> punchline]

JokeResponses ==
    {JokeResponse("exception", 0, FALSE, Missing, Missing),
     JokeResponse("response", 500, TRUE, Missing, Missing),
     JokeResponse("response", HttpOk, FALSE, Missing, Missing)}
    \cup {JokeResponse("response", HttpOk, TRUE, s, p) :
            s \in {Missing, Present("a")}, p \in {Missing, Present("b")}}

\* fetch_joke, lines 66-73
fetch_joke(r) ==
    IF r.kind = "exception" THEN Raise("ClientError")
    ELSE IF r.status # HttpOk THEN Return(JokeFailedMsg)
    ELSE IF ~r.decodable THEN Raise("ContentTypeError")
    ELSE Return(<<Format(DictGet(r.setup)), "\n", Format(DictGet(r.punchline))>>)

\* ------------------------------------------------------------- chat
\* what prediction_client.predict can produce: an exception, or a response
\* whose predictions each may or may not hold "content"
PredictResponse(raised, predictions) == [raised |-> raised, predictions |-> predictions]

PredictResponses ==
    {PredictResponse(TRUE, <<>>),
     PredictResponse(FALSE, <<>>),
     PredictResponse(FALSE, <<Missing>>),
     PredictResponse(FALSE, <<Present("c")>>)}

\* chat_with_vertex_ai, lines 30-43: every exception is caught
chat_with_vertex_ai(r) ==
    IF r.raised THEN Return(<<"Vertex AI error: ", "GoogleAPICallError">>)
    ELSE IF r.predictions = <<>> THEN Return(<<"Vertex AI error: ", "IndexError">>)
    ELSE IF r.predictions[1].present THEN Return(<<r.predictions[1].v>>)
    ELSE Return(NoResponseMsg)

\* ------------------------------------------------------------- inbound texts
\* the texts the concurrent specification draws from: one or two per branch
DispatchTexts ==
    {<<"H", "i", " ">>,
     <<"/", "h", "e", "l", "p">>,
     <<"s", "e", "a", "r", "c", "h", ":", " ", "x">>,
     <<"s", "o", "l", "v", "e", ":", "2", "+", "2">>,
     <<"s", "o", "l", "v", "e", ":", "2", "+">>,
     <<"s", "o", "l", "v", "e", ":", "[", "1", "]">>,
     <<"j", "o", "k", "e">>,
     <<"C", "h", "a", "t", ":", " ">>,
     <<"c", "h", "a", "t", ":", "x">>,
     <<"x", "y", "z">>}

\* the texts the single-dispatch specification draws from: every keyword in
\* three spellings, with and without leading text and a payload
Leads == {<<>>, <<" ">>, <<"\n", " ">>, <<"x">>, <<"x", " ">>}
Keywords ==
    {StartText, <<"/", "S", "T", "A", "R", "T">>,
     HiText, <<"H", "i">>, <<"H", "I">>,
     HelloText, <<"H", "e", "l", "l", "o">>,
     HelpText, <<"/", "H", "E", "L", "P">>,
     SearchPrefix, <<"S", "e", "a", "r", "c", "h", ":">>,
     <<"S", "E", "A", "R", "C", "H", ":">>, <<"s", "e", "a", "r", "c", "h">>,
     SolvePrefix, <<"S", "O", "L", "V", "E", ":">>, <<"s", "o", "l", "v", "e">>,
     JokeText, <<"J", "o", "k", "e">>, <<"J", "O", "K", "E">>,
     ChatPrefix, <<"C", "h", "a", "t", ":">>, <<"C", "H", "A", "T", ":">>,
     <<"c", "h", "a", "t">>,
     <<>>, <<"x", "y", "z">>}
Payloads ==
    {<<>>, <<" ">>, <<"\t", "\n">>, <<"x">>, <<" ", "x", " ">>, <<":">>,
     <<" ", "2", "+", "2">>, <<"2", "+">>, <<"[", "1", "]">>,
     <<" ", "j", "o", "k", "e">>, <<"H", "i">>}
AllTexts == {l \o k \o p : l \in Leads, k \in Keywords, p \in Payloads}

\* ------------------------------------------------------------- state
NoUpdate == [chat |-> 0, text |-> <<>>]
NoCmd == Cmd("none", <<>>)
NoResp == [kind |-> "none"]

Init ==
    /\ update = [t \in Tasks |-> NoUpdate]
    /\ pc = [t \in Tasks |-> "idle"]
    /\ cmd = [t \in Tasks |-> NoCmd]
    /\ resp = [t \in Tasks |-> NoResp]
    /\ result = [t \in Tasks |-> <<>>]
    /\ replies = [t \in Tasks |-> <<>>]
    /\ calls = [t \in Tasks |-> <<>>]
    /\ exc = [t \in Tasks |-> "none"]

\* message.answer(body) has been called and is awaited
InFlight(body) == [body |-> body, status |-> "inflight"]

\* the call a branch awaits
ApiOf(variant) ==
    IF variant = "Search" THEN "search_get"
    ELSE IF variant = "Joke" THEN "joke_get"
    ELSE "predict"

\* the acknowledgement a branch sends first
AckOf(variant) == IF variant = "Search" THEN SearchingMsg ELSE ThinkingMsg

\* what handle_message does from its entry to its first await (or to the
\* exception that ends it): the await it stops at, the reply it has begun
\* to send, the call it has issued
Step(at, send, call, e) == [pc |-> at, send |-> send, call |-> call, exc |-> e]

\* the search branch with the acknowledgement not awaited: the call is issued
\* while the acknowledgement is still in flight
SearchStepNoAwait ==
    Step("call", <<InFlight(SearchingMsg)>>, <<ApiOf("Search")>>, "none")

\* lines 96-97: the search branch stops at the await of its acknowledgement
SearchStep == Step("ack", <<InFlight(SearchingMsg)>>, <<>>, "none")

\* lines 103-108
SolveStep(expression) ==
    LET r == SolveReply(expression)
    IN  IF r.exc = "none"
        THEN Step("reply", <<InFlight(r.value)>>, <<>>, "none")
        ELSE Step("raised", <<>>, <<>>, r.exc)

\* the chat branch without the test of the prompt
ChatStepNoCheck(prompt) == Step("ack", <<InFlight(ThinkingMsg)>>, <<>>, "none")

\* lines 117-121
ChatStep(prompt) ==
    IF prompt = <<>>
    THEN Step("reply", <<InFlight(PromptRequiredMsg)>>, <<>>, "none")
    ELSE Step("ack", <<InFlight(ThinkingMsg)>>, <<>>, "none")

FirstStep(c) ==
    IF c.variant = "Greeting" THEN Step("reply", <<InFlight(WelcomeMsg)>>, <<>>, "none")
    ELSE IF c.variant = "Help" THEN Step("reply", <<InFlight(HelpMsg)>>, <<>>, "none")
    ELSE IF c.variant = "Search" THEN SearchStep
    ELSE IF c.variant = "Solve" THEN SolveStep(c.arg)
    ELSE IF c.variant = "Joke" THEN Step("call", <<>>, <<ApiOf("Joke")>>, "none")
    ELSE IF c.variant = "Chat" THEN ChatStep(c.arg)
    ELSE Step("reply", <<InFlight(UnknownMsg)>>, <<>>, "none")

\* the last reply of task t gets the outcome of its send
Settle(rs, ok) ==
    [rs EXCEPT ![Len(rs)].status = IF ok THEN "ok" ELSE "failed"]

\* ------------------------------------------------------------- actions
\* the chats an arriving update may come from: one seen before, or the next
\* new one (chat ids are opaque, so chats are numbered by first appearance)
KnownChats == {update[u].chat : u \in Tasks} \ {0}
ArrivingChats == {c \in Chats : c <= Cardinality(KnownChats) + 1}

\* dp.start_polling: the next update arrives and gets a task of its own
Poll(t, texts) ==
    /\ pc[t] = "idle"
    /\ \A u \in Tasks : u < t => pc[u] # "idle"
    /\ \E chat \in ArrivingChats, text \in texts :
           update' = [update EXCEPT ![t] = [chat |-> chat, text |-> text]]
    /\ pc' = [pc EXCEPT ![t] = "start"]
    /\ UNCHANGED <<cmd, resp, result, replies, calls, exc>>

\* handle_message from its entry to its first await.  The event loop runs
\* ready tasks in the order of their creation, so a task takes its first step
\* after the tasks created before it have taken theirs.
HandleMessage(t) ==
    /\ pc[t] = "start"
    /\ \A u \in Tasks : u < t => pc[u] # "start"
    /\ LET c == Route(update[t].text)
           s == FirstStep(c)
       IN  /\ cmd' = [cmd EXCEPT ![t] = c]
           /\ pc' = [pc EXCEPT ![t] = s.pc]
           /\ replies' = [replies EXCEPT ![t] = @ \o s.send]
           /\ calls' = [calls EXCEPT ![t] = @ \o s.call]
           /\ exc' = [exc EXCEPT ![t] = s.exc]
    /\ UNCHANGED <<update, resp, result>>

\* lines 97-98 and 121-122: the acknowledgement's send ends; on success the
\* handler's call is issued, on failure the exception leaves handle_message
AckSent(t) ==
    /\ pc[t] = "ack"
    /\ \E ok \in BOOLEAN :
           /\ replies' = [replies EXCEPT ![t] = Settle(@, ok)]
           /\ IF ok
              THEN /\ calls' = [calls EXCEPT ![t] = Append(@, ApiOf(cmd[t].variant))]
                   /\ pc' = [pc EXCEPT ![t] = "call"]
                   /\ exc' = exc
              ELSE /\ calls' = calls
                   /\ pc' = [pc EXCEPT ![t] = "raised"]
                   /\ exc' = [exc EXCEPT ![t] = "TelegramAPIError"]
    /\ UNCHANGED <<update, cmd, resp, result>>

\* the awaited handler, given response x by its service, ends with outcome
\* r: its value is sent as the reply, or its exception leaves handle_message
Resume(t, x, r) ==
    /\ resp' = [resp EXCEPT ![t] = x]
    /\ IF r.exc = "none"
       THEN /\ result' = [result EXCEPT ![t] = r.value]
            /\ replies' = [replies EXCEPT ![t] = Append(@, InFlight(r.value))]
            /\ pc' = [pc EXCEPT ![t] = "reply"]
            /\ exc' = exc
       ELSE /\ pc' = [pc EXCEPT ![t] = "raised"]
            /\ exc' = [exc EXCEPT ![t] = r.exc]
            /\ UNCHANGED <<result, replies>>
    /\ UNCHANGED <<update, cmd, calls>>

\* lines 98-99
SearchReturns(t) ==
    /\ pc[t] = "call"
    /\ cmd[t].variant = "Search"
    /\ \E x \in SearchResponses : Resume(t, x, google_search(x))

\* lines 112-113
JokeReturns(t) ==
    /\ pc[t] = "call"
    /\ cmd[t].variant = "Joke"
    /\ \E x \in JokeResponses : Resume(t, x, fetch_joke(x))

\* lines 122-123
ChatReturns(t) ==
    /\ pc[t] = "call"
    /\ cmd[t].variant = "Chat"
    /\ \E x \in PredictResponses : Resume(t, x, chat_with_vertex_ai(x))

\* the send of the last reply ends and handle_message returns, or the
\* send's exception leaves handle_message
ReplySent(t) ==
    /\ pc[t] = "reply"
    /\ \E ok \in BOOLEAN :
           /\ replies' = [replies EXCEPT ![t] = Settle(@, ok)]
           /\ pc' = [pc EXCEPT ![t] = IF ok THEN "done" ELSE "raised"]
           /\ exc' = [exc EXCEPT ![t] = IF ok THEN "none" ELSE "TelegramAPIError"]
    /\ UNCHANGED <<update, cmd, resp, result, calls>>

Next ==
    \E t \in Tasks :
        \/ Poll(t, DispatchTexts)
        \/ HandleMessage(t)
        \/ AckSent(t)
        \/ SearchReturns(t)
        \/ JokeReturns(t)
        \/ ChatReturns(t)
        \/ ReplySent(t)

Spec == Init /\ [][Next]_vars

\* one dispatch, over every text of AllTexts
NextOne ==
    \/ Poll(1, AllTexts)
    \/ HandleMessage(1)
    \/ AckSent(1)
    \/ SearchReturns(1)
    \/ JokeReturns(1)
    \/ ChatReturns(1)
    \/ ReplySent(1)

SpecOne == Init /\ [][NextOne]_vars

\* ------------------------------------------------------------- properties
Started(t) == pc[t] \notin {"idle", "start"}
Finished(t) == pc[t] \in {"done", "raised"}
NoSendFailed(t) == \A i \in 1..Len(replies[t]) : replies[t][i].status # "failed"

\* the branches that acknowledge before they call their handler
Acknowledges(c) == c.variant = "Search" \/ (c.variant = "Chat" /\ c.arg # <<>>)

\* The routing rules as section 4.1 of the specification words them, on the
\* raw text, with no use of Strip, Lower or StartsWith.
SameLetter(a, b) ==
    a = b \/ \E i \in 1..Len(UpperCase) : {a, b} = {UpperCase[i], LowerCase[i]}

EqualsIgnoreCase(s, w) ==
    Len(s) = Len(w) /\ \A i \in 1..Len(w) : SameLetter(s[i], w[i])

HasPrefixIgnoreCase(s, w) ==
    Len(s) >= Len(w) /\ \A i \in 1..Len(w) : SameLetter(s[i], w[i])

\* core is raw without its leading and trailing whitespace
IsTrimOf(core, raw) ==
    \E i \in 0..Len(raw), j \in 0..Len(raw) :
        /\ i + j <= Len(raw)
        /\ core = SubSeq(raw, i + 1, Len(raw) - j)
        /\ \A k \in 1..i : raw[k] \in Whitespace
        /\ \A k \in (Len(raw) - j + 1)..Len(raw) : raw[k] \in Whitespace
        /\ core = <<>> \/ (core[1] \notin Whitespace /\ core[Len(core)] \notin Whitespace)

Trimmed(raw) ==
    CHOOSE core \in {SubSeq(raw, a, b) : a \in 1..(Len(raw) + 1), b \in 0..Len(raw)} :
        IsTrimOf(core, raw)

RuleVariant == <<"Greeting", "Help", "Search", "Solve", "Joke", "Chat", "Unknown">>

RuleMatches(k, core) ==
    IF k = 1 THEN \E w \in {StartText, HiText, HelloText} : EqualsIgnoreCase(core, w)
    ELSE IF k = 2 THEN EqualsIgnoreCase(core, HelpText)
    ELSE IF k = 3 THEN HasPrefixIgnoreCase(core, SearchPrefix)
    ELSE IF k = 4 THEN HasPrefixIgnoreCase(core, SolvePrefix)
    ELSE IF k = 5 THEN EqualsIgnoreCase(core, JokeText)
    ELSE IF k = 6 THEN HasPrefixIgnoreCase(core, ChatPrefix)
    ELSE TRUE

FirstRule(core) ==
    CHOOSE k \in 1..Len(RuleVariant) :
        RuleMatches(k, core) /\ \A j \in 1..(k - 1) : ~RuleMatches(j, core)

\* the text is chat: and nothing but whitespace after it
EmptyChat(raw) ==
    LET core == Trimmed(raw)
    IN  /\ HasPrefixIgnoreCase(core, ChatPrefix)
        /\ \A k \in (Len(ChatPrefix) + 1)..Len(core) : core[k] \in Whitespace

\* C1: in a search dispatch and in a chat dispatch with a prompt, the first
\* reply handed to the sink is the acknowledgement, and when the result reply
\* is handed to the sink the acknowledgement's send has ended with success and
\* the handler has been called; the result is a second reply of its own, and
\* there is no third.
C1_AckBeforeResult ==
    \A t \in Tasks :
        Started(t) /\ Acknowledges(cmd[t]) =>
            /\ Len(replies[t]) \in 1..2
            /\ replies[t][1].body = AckOf(cmd[t].variant)
            /\ Len(replies[t]) = 2 =>
                   /\ replies[t][1].status = "ok"
                   /\ replies[t][2].body = result[t]
                   /\ Len(calls[t]) = 1
                   /\ resp[t] # NoResp

C1_Witness ==
    \E t \in Tasks, u \in Tasks :
        /\ t # u
        /\ cmd[t].variant = "Search" /\ pc[t] = "done" /\ Len(replies[t]) = 2
        /\ cmd[u].variant = "Chat" /\ pc[u] = "reply" /\ Len(replies[u]) = 2

\* C2: a finished dispatch none of whose sends failed has handed the sink
\* two replies if it is a search or a chat with a prompt, and one otherwise.
C2_OneOrTwoReplies ==
    \A t \in Tasks :
        Finished(t) /\ NoSendFailed(t) =>
            Len(replies[t]) = IF Acknowledges(cmd[t]) THEN 2 ELSE 1

\* C3: a dispatch issues at most one external call; when it has finished it
\* has issued exactly one if it is a search, a joke or a chat with a prompt,
\* and none otherwise.
C3_CallCount ==
    \A t \in Tasks :
        /\ Len(calls[t]) <= 1
        /\ Finished(t) =>
               Len(calls[t]) =
                   IF Acknowledges(cmd[t]) \/ cmd[t].variant = "Joke" THEN 1 ELSE 0

\* C4: a dispatch of a text that is chat: followed by nothing but whitespace
\* issues no call and hands the sink one reply, the prompt-required message
\* (so never the Thinking... acknowledgement).
C4_EmptyChat ==
    \A t \in Tasks :
        Started(t) /\ EmptyChat(update[t].text) =>
            /\ calls[t] = <<>>
            /\ resp[t] = NoResp
            /\ Len(replies[t]) = 1
            /\ replies[t][1].body = PromptRequiredMsg
            /\ exc[t] \in {"none", "TelegramAPIError"}

C4_Witness ==
    \E t \in Tasks :
        /\ EmptyChat(update[t].text)
        /\ Len(update[t].text) > Len(ChatPrefix)
        /\ update[t].text[1] = "C"
        /\ pc[t] = "done"

C6_SearchNeverRaises ==
    \A t \in Tasks :
        cmd[t].variant = "Search" =>
            /\ exc[t] \in {"none", "TelegramAPIError"}
            /\ Finished(t) /\ replies[t][1].status = "ok" => Len(replies[t]) = 2

\* C7: a finished solve dispatch whose send did not fail has ended with no
\* exception and has handed the sink a Result reply or the
\* invalid-expression reply.
C7_SolveNeverRaises ==
    \A t \in Tasks :
        cmd[t].variant = "Solve" /\ Finished(t) /\ NoSendFailed(t) =>
            /\ exc[t] = "none"
            /\ Len(replies[t]) = 1
            /\ replies[t][1].body = InvalidExprMsg \/ replies[t][1].body[1] = "Result: "

\* C8: a dispatch whose acknowledgement send failed still calls its handler
\* and hands the sink the result reply.
C8_SendFailureTolerated ==
    \A t \in Tasks :
        Finished(t) /\ Acknowledges(cmd[t]) /\ replies[t][1].status = "failed" =>
            Len(calls[t]) = 1 /\ Len(replies[t]) = 2

\* C9: of two dispatches of one chat, the later one hands the sink no reply
\* and issues no call before the earlier one has handed the sink its last
\* reply (or has ended).
LastReplyHanded(t) == pc[t] \in {"reply", "done", "raised"}

C9_OneDispatchPerChat ==
    \A t \in Tasks, u \in Tasks :
        /\ t < u
        /\ pc[u] # "idle"
        /\ update[t].chat = update[u].chat
        /\ replies[u] # <<>> \/ calls[u] # <<>>
        => LastReplyHanded(t)

\* C10: the reply to a joke whose GET returned 200 and a decodable body is
\* setup, newline, punchline, with the empty string for a missing field.
FieldOrEmpty(field) == IF field.present THEN field.v ELSE ""

C10_MissingFieldEmpty ==
    \A t \in Tasks :
        /\ cmd[t].variant = "Joke"
        /\ resp[t] # NoResp
        /\ resp[t].kind = "response" /\ resp[t].status = HttpOk /\ resp[t].decodable
        => /\ exc[t] = "none" \/ exc[t] = "TelegramAPIError"
           /\ result[t] = <<FieldOrEmpty(resp[t].setup), "\n", FieldOrEmpty(resp[t].punchline)>>

====
